---- MODULE Spec2Model ----
(***************************************************************************)
(* Model of fifa.py: a Streamlit dashboard that loads three CSV files     *)
(* (WorldCups, WorldCupMatches, WorldCupPlayers) into pandas DataFrames   *)
(* and renders one of five views, each computing derived aggregates.      *)
(*                                                                         *)
(* A DataFrame is a sequence of row records; every row carries the        *)
(* DataFrame index label it got from read_csv in the field "index".       *)
(* A missing numeric cell is NaN; a missing string cell is NA.            *)
(***************************************************************************)
EXTENDS Integers, Sequences, FiniteSets, TLC

(* ------------------------------ bounds -------------------------------- *)
MaxCups == 6
MaxMatches == 4
MaxPlayers == 4
MaxLongMatches == 12

(* ------------------------- program constants -------------------------- *)
RecentN == 5
TopWinners == 10
NLargestN == 10
TopStages == 10
TopPositions == 10
TopTeams == 20
TopCoaches == 10

(* missing values as pandas reads them from an empty CSV cell *)
NaN == -1
NA == "<NA>"

FileNames == {"WorldCups.csv", "WorldCupMatches.csv", "WorldCupPlayers.csv"}
TableNames == {"world_cups", "matches", "players"}
Pages == {"Overview", "World Cup Winners", "Goals & Attendance",
          "Match Statistics", "Player Analysis"}

(* ----------------------------- helpers -------------------------------- *)
Min(a, b) == IF a <= b THEN a ELSE b

Range(s) == {s[i] : i \in DOMAIN s}

RECURSIVE Pow10(_)
Pow10(n) == IF n = 0 THEN 1 ELSE 10 * Pow10(n - 1)

(* DataFrame.head(n) / Series.head(n) *)
head(s, n) == SubSeq(s, 1, Min(n, Len(s)))

(* DataFrame.tail(n) *)
tail(s, n) == SubSeq(s, Len(s) - Min(n, Len(s)) + 1, Len(s))

(* Series.sum(): NaN cells are skipped *)
RECURSIVE sum(_)
sum(col) ==
    IF col = <<>> THEN 0
    ELSE (IF col[1] = NaN THEN 0 ELSE col[1]) + sum(Tail(col))

(* elementwise + of two numeric cells: NaN propagates *)
add(a, b) == IF a = NaN \/ b = NaN THEN NaN ELSE a + b

(* --------------------- the Attendance text column --------------------- *)
(* A cell of the Attendance column after read_csv: either the CSV text    *)
(* (dtype object) or the number read_csv parsed it into, kept as num/den. *)
StrCell(t) == [dtype |-> "object", text |-> t, num |-> 0, den |-> 1]
NumCell(dt, n, d) == [dtype |-> dt, text |-> <<>>, num |-> n, den |-> d]

DigitVal(c) ==
    CASE c = "0" -> 0 [] c = "1" -> 1 [] c = "2" -> 2 [] c = "3" -> 3
      [] c = "4" -> 4 [] c = "5" -> 5 [] c = "6" -> 6 [] c = "7" -> 7
      [] c = "8" -> 8 [] c = "9" -> 9

RECURSIVE DigitsToNat(_)
DigitsToNat(t) ==
    IF t = <<>> THEN 0
    ELSE DigitsToNat(SubSeq(t, 1, Len(t) - 1)) * 10 + DigitVal(t[Len(t)])

IsDot(c) == c = "."
NotDot(c) == c # "."
CountDots(t) == Len(SelectSeq(t, IsDot))

(* str.replace('.', ''): every '.' of the text is removed *)
str_replace_dot(t) == SelectSeq(t, NotDot)

(* number of characters after the first '.' of t *)
FracDigits(t) == Len(t) - (CHOOSE i \in 1..Len(t) : t[i] = "." /\ \A j \in 1..(i-1) : t[j] # ".")

(* read_csv's type inference for one column of digit-and-dot texts: the    *)
(* column is int64 when no cell has a '.', float64 when every cell has at  *)
(* most one '.' (it reads "590.549" as the decimal 590.549), and stays a   *)
(* column of strings (object) as soon as one cell has two or more dots.    *)
infer_attendance(texts) ==
    IF \A i \in DOMAIN texts : CountDots(texts[i]) = 0
    THEN [i \in DOMAIN texts |-> NumCell("int64", DigitsToNat(texts[i]), 1)]
    ELSE IF \A i \in DOMAIN texts : CountDots(texts[i]) <= 1
    THEN [i \in DOMAIN texts |->
            IF CountDots(texts[i]) = 0
            THEN NumCell("float64", DigitsToNat(texts[i]), 1)
            ELSE NumCell("float64", DigitsToNat(str_replace_dot(texts[i])),
                         Pow10(FracDigits(texts[i])))]
    ELSE [i \in DOMAIN texts |-> StrCell(texts[i])]

(* Series.str.replace('.', '').astype(float) on a whole column.  The .str  *)
(* accessor exists only on a column of strings: on a numeric column the    *)
(* expression raises AttributeError.  float('') raises ValueError.         *)
normalize_attendance(col) ==
    IF \E i \in DOMAIN col : col[i].dtype # "object"
    THEN [error |-> "AttributeError", values |-> <<>>]
    ELSE IF \E i \in DOMAIN col : str_replace_dot(col[i].text) = <<>>
    THEN [error |-> "ValueError", values |-> <<>>]
    ELSE [error |-> "none",
          values |-> [i \in DOMAIN col |->
                NumCell("float64", DigitsToNat(str_replace_dot(col[i].text)), 1)]]

(* ------------------------- the files on disk -------------------------- *)
A590549 == <<"5","9","0",".","5","4","9">>
A363000 == <<"3","6","3",".","0","0","0">>
A1045246 == <<"1",".","0","4","5",".","2","4","6">>
A3587538 == <<"3",".","5","8","7",".","5","3","8">>

CupBodies ==
    { [Country |-> "Uruguay", Winner |-> "Uruguay", RunnersUp |-> "Argentina",
       GoalsScored |-> 70, MatchesPlayed |-> 18, QualifiedTeams |-> 13,
       Attendance |-> A590549],
      [Country |-> "Italy", Winner |-> "Italy", RunnersUp |-> "Czechoslovakia",
       GoalsScored |-> 70, MatchesPlayed |-> 17, QualifiedTeams |-> 16,
       Attendance |-> A363000],
      [Country |-> "Brazil", Winner |-> "Uruguay", RunnersUp |-> "Brazil",
       GoalsScored |-> 88, MatchesPlayed |-> 22, QualifiedTeams |-> 13,
       Attendance |-> A1045246],
      [Country |-> "USA", Winner |-> "Brazil", RunnersUp |-> "Italy",
       GoalsScored |-> 141, MatchesPlayed |-> 52, QualifiedTeams |-> 24,
       Attendance |-> A3587538] }

MatchBodies ==
    { [Stage |-> "Group 1", HomeTeamName |-> "France", HomeTeamGoals |-> 3,
       AwayTeamGoals |-> 2, AwayTeamName |-> "Mexico"],
      [Stage |-> "Final", HomeTeamName |-> "Uruguay", HomeTeamGoals |-> 4,
       AwayTeamGoals |-> 1, AwayTeamName |-> "Argentina"],
      [Stage |-> "Group 1", HomeTeamName |-> "USA", HomeTeamGoals |-> 1,
       AwayTeamGoals |-> 0, AwayTeamName |-> "Belgium"],
      [Stage |-> "Final", HomeTeamName |-> "Italy", HomeTeamGoals |-> NaN,
       AwayTeamGoals |-> 1, AwayTeamName |-> "Brazil"],
      [Stage |-> "Semi-finals", HomeTeamName |-> "Germany", HomeTeamGoals |-> 2,
       AwayTeamGoals |-> NaN, AwayTeamName |-> "Sweden"] }

PlayerBodies ==
    { [PlayerName |-> "A", Position |-> "GK", TeamInitials |-> "GER",
       CoachName |-> "C1"],
      [PlayerName |-> "B", Position |-> NA, TeamInitials |-> "FRA",
       CoachName |-> "C2"],
      [PlayerName |-> NA, Position |-> "C", TeamInitials |-> "FRA",
       CoachName |-> "C2"],
      [PlayerName |-> "B", Position |-> "C", TeamInitials |-> "BRA",
       CoachName |-> "C3"] }

(* all CSV contents of 1..n data rows over a set of row bodies *)
CsvOver(bodies, n) == UNION {[1..k -> bodies] : k \in 1..n}

SampleCups == CHOOSE b \in CupBodies : b.Country = "Brazil"
SampleMatch == CHOOSE b \in MatchBodies : b.HomeTeamName = "France"
SamplePlayer == CHOOSE b \in PlayerBodies : b.TeamInitials = "GER"

(* ordering of the team codes as Python compares strings *)
TeamRank(t) == CASE t = "BRA" -> 1 [] t = "FRA" -> 2 [] t = "GER" -> 3 [] OTHER -> 4

VARIABLES
    files,      \* files[f]: can file f be read and parsed
    disk,       \* disk[t]: the data rows of the CSV behind table t
    cache,      \* st.cache_data entry of load_data
    tables,     \* main's locals world_cups, matches, players
    pc,         \* position in one run of the script
    page,       \* the sidebar radio's value in this run
    invoked,    \* the view handlers called in this run of the script
    messages,   \* the st.error messages shown so far
    out         \* what the last view handler computed and rendered

vars == <<files, disk, cache, tables, pc, page, invoked, messages, out>>

(* a local that is None, or bound to a DataFrame *)
None == [present |-> FALSE, rows |-> <<>>]
Some(rows) == [present |-> TRUE, rows |-> rows]

AllNone == [t \in TableNames |-> None]

FileOf(t) ==
    CASE t = "world_cups" -> "WorldCups.csv"
      [] t = "matches" -> "WorldCupMatches.csv"
      [] t = "players" -> "WorldCupPlayers.csv"

(* pd.read_csv of one file: rows get the RangeIndex 0..n-1; the Year column *)
(* of the two per-tournament files follows the row (one edition every 4     *)
(* years); the Attendance column goes through read_csv's type inference.    *)
read_csv(t, csv) ==
    IF t = "world_cups"
    THEN LET att == infer_attendance([i \in DOMAIN csv |-> csv[i].Attendance])
         IN [i \in DOMAIN csv |->
                [csv[i] EXCEPT !.Attendance = att[i]]
                    @@ [index |-> i - 1, Year |-> 1930 + 4 * (i - 1)]]
    ELSE IF t = "matches"
    THEN [i \in DOMAIN csv |-> csv[i] @@ [index |-> i - 1, Year |-> 1930]]
    ELSE [i \in DOMAIN csv |-> csv[i] @@ [index |-> i - 1]]

(* ------------------------- pandas operations -------------------------- *)
column(rows, c) == [i \in DOMAIN rows |-> rows[i][c]]

(* the values of col in order of first appearance *)
RECURSIVE unique(_)
unique(col) ==
    IF col = <<>> THEN <<>>
    ELSE LET u == unique(SubSeq(col, 1, Len(col) - 1))
         IN IF col[Len(col)] \in Range(u) THEN u ELSE Append(u, col[Len(col)])

(* drop_duplicates() before counting: every present value counts once *)
count_of_deduplicated(col, k) == IF \E i \in DOMAIN col : col[i] = k THEN 1 ELSE 0
count_of(col, k) == Cardinality({i \in DOMAIN col : col[i] = k})

(* Series.count(): the number of non-missing cells, repeats included *)
count_not_distinct(col) == Cardinality({i \in DOMAIN col : col[i] # NA})
(* Series.nunique(): the number of distinct non-missing values *)
nunique(col) == Cardinality(Range(col) \ {NA})

Perms(n) == IF n = 0 THEN {<<>>} ELSE Permutations(1..n)

(* Series.sort_values(ascending=False) with the default kind='quicksort':  *)
(* the result is in non-increasing order; numpy's quicksort is not a       *)
(* stable sort, so the relative order of equal values is whatever the      *)
(* numpy build produces.  The value is the set of possible index orders.   *)
sort_values_desc(vals) ==
    {p \in Perms(Len(vals)) :
        \A i \in 1..(Len(vals) - 1) : vals[p[i]] >= vals[p[i + 1]]}

(* argsort(kind='mergesort') of the negated values: a stable sort.  Row i  *)
(* goes behind every row already placed whose value is >= its own.         *)
insert_stable(p, i, vals) ==
    LET k == Cardinality({j \in DOMAIN p : vals[p[j]] >= vals[i]})
    IN SubSeq(p, 1, k) \o <<i>> \o SubSeq(p, k + 1, Len(p))

RECURSIVE mergesort_upto(_, _)
mergesort_upto(vals, n) ==
    IF n = 0 THEN <<>> ELSE insert_stable(mergesort_upto(vals, n - 1), n, vals)

mergesort_desc(vals) == mergesort_upto(vals, Len(vals))

(* Series.nlargest(n, keep='first').  With n >= len(series) pandas takes   *)
(* its "slow method", sort_values(ascending=False).head(n); otherwise it   *)
(* selects with kth_smallest and orders with a mergesort argsort.          *)
nlargest(n, vals) ==
    IF n >= Len(vals)
    THEN {head(p, n) : p \in sort_values_desc(vals)}
    ELSE {head(mergesort_desc(vals), n)}

(* Series.value_counts(): one entry per distinct non-missing value, keys   *)
(* collected in order of first appearance, then sort_values(descending).   *)
value_counts(col) ==
    LET keys == unique(SelectSeq(col, LAMBDA v : v # NA))
        cnts == [i \in DOMAIN keys |-> count_of(col, keys[i])]
    IN {[i \in DOMAIN keys |-> [key |-> keys[p[i]], count |-> cnts[p[i]]]] :
            p \in sort_values_desc(cnts)}

(* the group keys of groupby(sort=True): distinct non-missing, ascending *)
sorted_keys(col) ==
    LET S == Range(col) \ {NA}
    IN CHOOSE s \in [1..Cardinality(S) -> S] :
        /\ \A i, j \in DOMAIN s : i # j => s[i] # s[j]
        /\ \A i, j \in DOMAIN s : i < j => TeamRank(s[i]) < TeamRank(s[j])

(* groupby(k)[v].nunique().sort_values(ascending=False) *)
groupby_nunique_sorted(rows, k, v) ==
    LET keys == sorted_keys(column(rows, k))
        grp(key) == SelectSeq(rows, LAMBDA r : r[k] = key)
        cnts == [i \in DOMAIN keys |-> nunique(column(grp(keys[i]), v))]
    IN {[i \in DOMAIN keys |-> [key |-> keys[p[i]], count |-> cnts[p[i]]]] :
            p \in sort_values_desc(cnts)}

(* dropna(subset=['Home Team Goals']): the away column is not looked at *)
dropna_home_only(rows) == SelectSeq(rows, LAMBDA r : r.HomeTeamGoals # NaN)
(* matches.dropna(subset=['Home Team Goals', 'Away Team Goals']) *)
dropna_goals(rows) ==
    SelectSeq(rows, LAMBDA r : r.HomeTeamGoals # NaN /\ r.AwayTeamGoals # NaN)

(* players.dropna(subset=['Player Name']) *)
dropna_name(rows) == SelectSeq(rows, LAMBDA r : r.PlayerName # NA)

(* ---------------- DataFrame objects and their aliasing ---------------- *)
(* A handler works on a heap of DataFrame objects: its arguments under the *)
(* names of main's locals, and the frames it creates under the names of    *)
(* its own locals.  df_new is an operation that returns a new object       *)
(* (tail(5)[[...]], dropna); df_copy is DataFrame.copy().                   *)
df_new(h, new, rows) == (new :> rows) @@ h

(* an assignment without .copy(): the new name is the same object *)
df_copy_alias(h, src, new) == [heap |-> h, ref |-> src]
df_copy(h, src, new) == [heap |-> (new :> h[src]) @@ h, ref |-> new]

(* frame[c] = values: the frame object `ref` gets (or replaces) column c *)
set_column(h, ref, c, values) ==
    [h EXCEPT ![ref] = [i \in DOMAIN h[ref] |-> (c :> values[i]) @@ h[ref][i]]]

project(rows, cols) == [i \in DOMAIN rows |-> [c \in cols \cup {"index"} |-> rows[i][c]]]

heap_of(tbl) == [t \in TableNames |-> tbl[t].rows]
locals_of(h) == [t \in TableNames |-> Some(h[t])]

(* ------------------------------ load_data ----------------------------- *)
(* one try block per file: only the file that fails comes back as None *)
read_all_partial(fs, d) ==
    [t \in TableNames |-> IF fs[FileOf(t)] THEN Some(read_csv(t, d[t])) ELSE None]
(* the try block: three reads in order; any exception gives three Nones *)
read_all(fs, d) ==
    IF \A t \in TableNames : fs[FileOf(t)]
    THEN [t \in TableNames |-> Some(read_csv(t, d[t]))]
    ELSE AllNone

NoOut == [view |-> "none"]

Init ==
    /\ files \in [FileNames -> BOOLEAN]
    /\ \/ disk \in [world_cups : CsvOver(CupBodies, MaxCups),
                    matches : {<<SampleMatch>>}, players : {<<SamplePlayer>>}]
       \/ disk \in [world_cups : {<<SampleCups>>},
                    matches : CsvOver(MatchBodies, MaxMatches), players : {<<SamplePlayer>>}]
       \/ disk \in [world_cups : {<<SampleCups>>},
                    matches : {<<SampleMatch>>}, players : CsvOver(PlayerBodies, MaxPlayers)]
    /\ cache = [hit |-> FALSE, value |-> AllNone]
    /\ tables = AllNone
    /\ pc = "start"
    /\ page = "none"
    /\ invoked = {}
    /\ messages = {}
    /\ out = NoOut

(* main, line 53: world_cups, matches, players = load_data(), through the  *)
(* st.cache_data entry *)
load_data ==
    /\ pc = "start"
    /\ LET result == IF cache.hit THEN cache.value ELSE read_all(files, disk)
       IN /\ cache' = [hit |-> TRUE, value |-> result]
          /\ tables' = result
          /\ messages' = IF ~cache.hit /\ \E t \in TableNames : ~result[t].present
                         THEN messages \cup {"Error loading data"}
                         ELSE messages
    /\ pc' = "loaded"
    /\ UNCHANGED <<files, disk, page, invoked, out>>

(* main, lines 55-57 *)
main_abort ==
    /\ pc = "loaded"
    /\ \E t \in TableNames : ~tables[t].present
    /\ messages' = messages \cup {"Failed to load data"}
    /\ pc' = "done"
    /\ UNCHANGED <<files, disk, cache, tables, page, invoked, out>>

(* main, lines 61-74: the guard of every view handler *)
Routed(p) ==
    /\ pc = "loaded"
    /\ \A t \in TableNames : tables[t].present
    /\ page' = p
    /\ invoked' = invoked \cup {p}
    /\ pc' = "done"
    /\ UNCHANGED <<files, disk, cache, messages>>

(* ----------------------------- the views ------------------------------ *)
RecentCols == {"Year", "Country", "Winner", "RunnersUp", "GoalsScored", "Attendance"}
HighestCols == {"Year", "HomeTeamName", "HomeTeamGoals", "AwayTeamName",
                "AwayTeamGoals", "TotalGoals"}

show_overview ==
    /\ Routed("Overview")
    /\ LET h0 == heap_of(tables)
           wc == h0["world_cups"]
           h1 == df_new(h0, "recent_cups", project(tail(wc, RecentN), RecentCols))
           norm == normalize_attendance(column(h1["recent_cups"], "Attendance"))
           h2 == IF norm.error = "none"
                 THEN set_column(h1, "recent_cups", "Attendance", norm.values)
                 ELSE h1
       IN /\ tables' = locals_of(h2)
          /\ out' = [view |-> "Overview",
                     error |-> norm.error,
                     tournaments |-> Len(wc),
                     total_goals |-> sum(column(wc, "GoalsScored")),
                     total_matches |-> sum(column(wc, "MatchesPlayed")),
                     total_teams |-> sum(column(wc, "QualifiedTeams")),
                     recent_cups |-> IF norm.error = "none"
                                     THEN h2["recent_cups"] ELSE <<>>]

show_winners ==
    /\ Routed("World Cup Winners")
    /\ LET h0 == heap_of(tables)
           wc == h0["world_cups"]
       IN \E vc \in value_counts(column(wc, "Winner")) :
            LET winner_counts ==
                    [i \in DOMAIN vc |-> [Country |-> vc[i].key, Wins |-> vc[i].count]]
            IN /\ tables' = locals_of(h0)
               /\ out' = [view |-> "World Cup Winners",
                          error |-> "none",
                          winner_counts |-> winner_counts,
                          chart |-> head(winner_counts, TopWinners),
                          host_winners |->
                              column(SelectSeq(wc, LAMBDA r : r.Country = r.Winner),
                                     "Country")]

show_goals_attendance ==
    /\ Routed("Goals & Attendance")
    /\ LET h0 == heap_of(tables)
           c == df_copy(h0, "world_cups", "world_cups_clean")
           norm == normalize_attendance(column(c.heap[c.ref], "Attendance"))
           h1 == IF norm.error = "none"
                 THEN set_column(c.heap, c.ref, "Attendance", norm.values)
                 ELSE c.heap
           ok == norm.error = "none"
       IN /\ tables' = locals_of(h1)
          /\ out' = [view |-> "Goals & Attendance",
                     error |-> norm.error,
                     goals_series |->
                        IF ok THEN project(h1["world_cups"], {"Year", "GoalsScored"})
                        ELSE <<>>,
                     attendance_series |->
                        IF ok THEN project(h1[c.ref], {"Year", "Attendance"}) ELSE <<>>,
                     scatter |->
                        IF ok THEN project(h1[c.ref],
                                      {"GoalsScored", "Attendance", "Year",
                                       "MatchesPlayed", "Country", "Winner"})
                        ELSE <<>>]

show_match_stats ==
    /\ Routed("Match Statistics")
    /\ LET h0 == heap_of(tables)
           h1 == df_new(h0, "matches_clean", dropna_goals(h0["matches"]))
           total == [i \in DOMAIN h1["matches_clean"] |->
                        add(h1["matches_clean"][i].HomeTeamGoals,
                            h1["matches_clean"][i].AwayTeamGoals)]
           h2 == set_column(h1, "matches_clean", "TotalGoals", total)
           clean == h2["matches_clean"]
       IN \E idx \in nlargest(NLargestN, column(clean, "TotalGoals")) :
          \E sc \in value_counts(column(clean, "Stage")) :
            /\ tables' = locals_of(h2)
            /\ out' = [view |-> "Match Statistics",
                       error |-> "none",
                       highest_scoring |->
                          project([i \in DOMAIN idx |-> clean[idx[i]]], HighestCols),
                       histogram_input |-> column(clean, "TotalGoals"),
                       home_goals |-> sum(column(clean, "HomeTeamGoals")),
                       away_goals |-> sum(column(clean, "AwayTeamGoals")),
                       stage_counts |-> head(sc, TopStages)]

show_player_analysis ==
    /\ Routed("Player Analysis")
    /\ LET h0 == heap_of(tables)
           h1 == df_new(h0, "players_clean", dropna_name(h0["players"]))
           clean == h1["players_clean"]
       IN \E pos \in value_counts(column(clean, "Position")) :
          \E team \in groupby_nunique_sorted(clean, "TeamInitials", "PlayerName") :
          \E coach \in value_counts(column(clean, "CoachName")) :
            /\ tables' = locals_of(h1)
            /\ out' = [view |-> "Player Analysis",
                       error |-> "none",
                       position_counts |-> head(pos, TopPositions),
                       team_players |-> head(team, TopTeams),
                       coach_counts |-> head(coach, TopCoaches)]

(* a user interaction: Streamlit runs the script again from the top *)
rerun ==
    /\ pc = "done"
    /\ pc' = "start"
    /\ page' = "none"
    /\ tables' = AllNone
    /\ invoked' = {}
    /\ out' = NoOut
    /\ UNCHANGED <<files, disk, cache, messages>>

Next ==
    \/ load_data
    \/ main_abort
    \/ show_overview
    \/ show_winners
    \/ show_goals_attendance
    \/ show_match_stats
    \/ show_player_analysis
    \/ rerun

Spec == Init /\ [][Next]_vars

(* Match files with more rows than nlargest keeps, every row with both     *)
(* goal counts: the case in which nlargest selects and orders the rows     *)
(* with kth_smallest and a mergesort instead of sorting the whole column.  *)
LongMatchBodies == {b \in MatchBodies : b.HomeTeamGoals # NaN /\ b.AwayTeamGoals # NaN
                                        /\ b.Stage = "Group 1"}

InitLong ==
    /\ files \in [FileNames -> BOOLEAN]
    /\ disk \in [world_cups : {<<SampleCups>>},
                 matches : UNION {[1..k -> LongMatchBodies] :
                                    k \in (NLargestN + 1)..MaxLongMatches},
                 players : {<<SamplePlayer>>}]
    /\ cache = [hit |-> FALSE, value |-> AllNone]
    /\ tables = AllNone
    /\ pc = "start"
    /\ page = "none"
    /\ invoked = {}
    /\ messages = {}
    /\ out = NoOut

SpecLong == InitLong /\ [][Next]_vars

(* ------------------------------ claims -------------------------------- *)
SomeFileFails == \E f \in FileNames : ~files[f]
BothGoals(r) == r.HomeTeamGoals # NaN /\ r.AwayTeamGoals # NaN
NonIncreasing(counts) ==
    \A i \in 1..(Len(counts) - 1) : counts[i] >= counts[i + 1]
FirstAt(col, k) == CHOOSE i \in DOMAIN col : col[i] = k /\ \A j \in 1..(i - 1) : col[j] # k
(* entries with equal counts appear in the order their keys first appear in col *)
TiesInEncounterOrder(entries, col) ==
    \A i, j \in DOMAIN entries :
        (i < j /\ entries[i].count = entries[j].count)
            => FirstAt(col, entries[i].key) < FirstAt(col, entries[j].key)

(* C1: when one of the three files cannot be loaded, load_data's result    *)
(* (the cache entry and main's three locals) has all three tables absent,  *)
(* never a mix, and the run ends with no view handler invoked and nothing  *)
(* rendered, whatever page is selected.                                    *)
C1_LoadFailureAllAbsent ==
    /\ (\A t \in TableNames : tables[t].present)
            \/ (\A t \in TableNames : ~tables[t].present)
    /\ SomeFileFails =>
        /\ \A t \in TableNames : ~tables[t].present /\ ~cache.value[t].present
        /\ invoked = {}
        /\ out = NoOut
        /\ pc = "done" => "Failed to load data" \in messages

C1_Witness ==
    /\ pc = "done"
    /\ SomeFileFails
    /\ \E f \in FileNames : files[f]
    /\ cache.hit
    /\ "Failed to load data" \in messages

(* C2: after a successful load, in every state of every sequence of runs,  *)
(* each of main's three tables is exactly the table read_csv produced from *)
(* its file: no handler added, removed or rewrote a row or a column.       *)
C2_TablesUnchanged ==
    \A t \in TableNames :
        tables[t].present => tables[t].rows = read_csv(t, disk[t])

C2_Witness ==
    /\ pc = "done"
    /\ out.view = "Goals & Attendance"
    /\ out.error = "none"
    /\ \E i \in DOMAIN out.attendance_series :
          /\ out.attendance_series[i].Attendance.dtype = "float64"
          /\ tables["world_cups"].rows[i].Attendance.dtype = "object"

HighestScoringSelected ==
    (out.view = "Match Statistics" /\ Len(disk["matches"]) > NLargestN) =>
        LET hs == out.highest_scoring
            m == disk["matches"]
            listed == {hs[i].index + 1 : i \in DOMAIN hs}
        IN /\ Len(hs) = NLargestN
           /\ \A k \in DOMAIN m \ listed : \A i \in DOMAIN hs :
                \/ m[k].HomeTeamGoals + m[k].AwayTeamGoals < hs[i].TotalGoals
                \/ /\ m[k].HomeTeamGoals + m[k].AwayTeamGoals = hs[i].TotalGoals
                   /\ k > hs[i].index + 1

(* C4: the per-match TotalGoals values are exactly home + away of the      *)
(* match rows with both goal counts present, in row order, one per such    *)
(* row and none for the others, and home total + away total is their sum.  *)
C4_MissingGoalsExcluded ==
    out.view = "Match Statistics" =>
        LET m == disk["matches"]
            both == SelectSeq(m, BothGoals)
        IN /\ out.histogram_input =
                [i \in DOMAIN both |-> both[i].HomeTeamGoals + both[i].AwayTeamGoals]
           /\ \A i \in DOMAIN out.histogram_input : out.histogram_input[i] >= 0
           /\ out.home_goals + out.away_goals = sum(out.histogram_input)

C4_Witness ==
    /\ out.view = "Match Statistics"
    /\ Len(disk["matches"]) = 2
    /\ disk["matches"][1].HomeTeamGoals = 3 /\ disk["matches"][1].AwayTeamGoals = 2
    /\ disk["matches"][2].HomeTeamGoals = NaN /\ disk["matches"][2].AwayTeamGoals = 1
    /\ out.histogram_input = <<5>>
    /\ out.home_goals = 3 /\ out.away_goals = 2

(* C5: the Wins of the per-winner counts (before the top-10 cut) sum to    *)
(* the number of rows of the tournament table, which is also the           *)
(* tournament count the overview shows.                                    *)
C5_WinCountsSumToTournamentCount ==
    /\ out.view = "World Cup Winners" =>
            sum(column(out.winner_counts, "Wins")) = Len(disk["world_cups"])
    /\ out.view = "Overview" => out.tournaments = Len(disk["world_cups"])

C5_Witness ==
    /\ out.view = "World Cup Winners"
    /\ Len(out.winner_counts) >= 2
    /\ \E i \in DOMAIN out.winner_counts : out.winner_counts[i].Wins >= 2

(* C6: each team of the players-per-team result has as its count the       *)
(* number of distinct non-missing player names among that team's rows, at  *)
(* most the team's number of rows; every team with a named player is       *)
(* listed (up to the top-20 cut) exactly once.                             *)
C6_PlayersByTeamDistinctNames ==
    out.view = "Player Analysis" =>
        LET p == disk["players"]
            tp == out.team_players
            named == {p[i].TeamInitials : i \in {k \in DOMAIN p : p[k].PlayerName # NA}}
        IN /\ Len(tp) = Min(TopTeams, Cardinality(named))
           /\ \A i, j \in DOMAIN tp : i # j => tp[i].key # tp[j].key
           /\ \A i \in DOMAIN tp :
                /\ tp[i].key \in named
                /\ tp[i].count =
                     Cardinality({p[k].PlayerName :
                        k \in {r \in DOMAIN p : p[r].TeamInitials = tp[i].key}} \ {NA})
                /\ tp[i].count <=
                     Cardinality({r \in DOMAIN p : p[r].TeamInitials = tp[i].key})

C6_Witness ==
    /\ out.view = "Player Analysis"
    /\ \E e \in Range(out.team_players) :
        /\ e.count = 1
        /\ \E i, j, k \in DOMAIN disk["players"] :
            /\ i < j
            /\ disk["players"][i].TeamInitials = e.key
            /\ disk["players"][j].TeamInitials = e.key
            /\ disk["players"][k].TeamInitials = e.key
            /\ disk["players"][i].PlayerName = disk["players"][j].PlayerName
            /\ disk["players"][i].PlayerName # NA
            /\ disk["players"][k].PlayerName = NA

(* C7: in every counting aggregate, groups with equal counts are listed in *)
(* the order in which their keys first appear in the table counted.        *)
C7_TiesInEncounterOrder ==
    /\ out.view = "World Cup Winners" =>
        TiesInEncounterOrder(
            [i \in DOMAIN out.chart |->
                [key |-> out.chart[i].Country, count |-> out.chart[i].Wins]],
            column(disk["world_cups"], "Winner"))
    /\ out.view = "Match Statistics" =>
        TiesInEncounterOrder(out.stage_counts,
                             column(dropna_goals(disk["matches"]), "Stage"))
    /\ out.view = "Player Analysis" =>
        /\ TiesInEncounterOrder(out.position_counts,
                                column(dropna_name(disk["players"]), "Position"))
        /\ TiesInEncounterOrder(out.team_players,
                                column(dropna_name(disk["players"]), "TeamInitials"))
        /\ TiesInEncounterOrder(out.coach_counts,
                                column(dropna_name(disk["players"]), "CoachName"))

(* C8: the coach table lists every coach of the players table with the     *)
(* number of rows of the whole players table carrying that coach, rows     *)
(* with a missing player name included, in non-increasing order, top 10.   *)
C8_TopCoachesOverWholeTable ==
    out.view = "Player Analysis" =>
        LET col == column(disk["players"], "CoachName")
            cc == out.coach_counts
        IN /\ Len(cc) = Min(TopCoaches, Cardinality(Range(col) \ {NA}))
           /\ NonIncreasing(column(cc, "count"))
           /\ \A i \in DOMAIN cc :
                cc[i].count = Cardinality({k \in DOMAIN col : col[k] = cc[i].key})

(* C9: the stage table lists every stage of the match table with the       *)
(* number of rows of the whole match table having that stage, rows with a  *)
(* missing goal count included, in non-increasing order, top 10.           *)
C9_MatchesByStageOverWholeTable ==
    out.view = "Match Statistics" =>
        LET col == column(disk["matches"], "Stage")
            sc == out.stage_counts
        IN /\ Len(sc) = Min(TopStages, Cardinality(Range(col) \ {NA}))
           /\ NonIncreasing(column(sc, "count"))
           /\ \A i \in DOMAIN sc :
                sc[i].count = Cardinality({k \in DOMAIN col : col[k] = sc[i].key})

(* C10: normalizing an Attendance column that is already normalized gives  *)
(* back the same column and raises no error.                               *)
C10_NormalizeIdempotent ==
    (out.view = "Goals & Attendance" /\ out.error = "none") =>
        LET normalized == column(out.attendance_series, "Attendance")
        IN normalize_attendance(normalized) = [error |-> "none", values |-> normalized]

====
